---- MODULE Spec2Model ----
(***************************************************************************)
(* Model of the prayer-reminder bot: the job registry rewritten by         *)
(* IslamicBot.schedule_prayer_notifications (src/bot.py) and the           *)
(* completion store of Database (src/database.py) read by                  *)
(* IslamicBot.calculate_streak and IslamicBot.show_stats; further the      *)
(* next-prayer resolver get_next_prayer, the user records with the         *)
(* notification toggle read by send_prayer_notification, and the commands  *)
(* that show fetched data, prayer_times_command and find_mosques.          *)
(*                                                                         *)
(* Each part has its own specification over the same variables: SpecSched  *)
(* and SpecLoop (the scheduler, whole calls and step by step), SpecStore   *)
(* and SpecShow (the completion store), SpecNext (the resolver),           *)
(* SpecNotify (toggle and firing) and SpecLookup (the data commands),      *)
(* SpecRun (the polling loop of run), SpecCity (city changes whose fetches *)
(* overlap), SpecToggle (the toggle one database round trip at a time)     *)
(* and SpecMark (marking by command and by button, with the chart).        *)
(*                                                                         *)
(* Strings the code inspects character by character (user ids inside job   *)
(* ids, "HH:MM" time strings) are tuples of one-character strings.  The    *)
(* prayer names of the source are the Russian keys of the dictionary built *)
(* in get_prayer_times_sync; they are written here by the English names    *)
(* of the API fields they are copied from (Fajr, Sunrise, Dhuhr, Asr,      *)
(* Maghrib, Isha).                                                         *)
(***************************************************************************)
EXTENDS Bags, FiniteSets, Integers, Sequences, TLC

VARIABLES
    jobs,          \* self.scheduler's job store: a set of job records
    calls,         \* schedule_prayer_notifications coroutines in flight
    last,          \* what the most recently finished schedule call did
    users,         \* table users: a set of rows, one per user id
    prayer_stats,  \* table prayer_stats: a bag of rows
    use_sqlite,    \* Database.use_sqlite
    today,         \* the current calendar date, a day number
    reply,         \* what the most recent handler, job or function call answered
    polling,       \* where run() stands in its polling loop, with its counters
    toggling       \* Database.toggle_notifications calls between SELECT and UPDATE

vars ==
    <<jobs, calls, last, users, prayer_stats, use_sqlite, today, reply, polling, toggling>>

schedVars == <<jobs, calls, last>>
storeVars == <<users, prayer_stats, use_sqlite, today, reply>>
runVars == <<polling, toggling>>

(* run() has not been entered *)
NotPolling ==
    [pc |-> "created", conflict_count |-> 0, attempts |-> 0, waits |-> <<>>,
     raised |-> "None"]

(* no toggle_notifications call is under way; done counts, per user, the
   calls that have returned a new state *)
Togglers == {1, 2}
NoToggle == [pc |-> "idle", user |-> 0, seen |-> FALSE]
NoToggling == [slot |-> [t \in Togglers |-> NoToggle], done |-> [u \in {1, 12} |-> 0]]

RunIdle == polling = NotPolling /\ toggling = NoToggling

-----------------------------------------------------------------------------
(* Bounds of the model *)

MaxCalls == 2      \* schedule calls that may wait for their fetch at once
MaxRows == 3       \* rows the prayer_stats table may hold
MaxDay == 3        \* last calendar day the clock advances to

(* Inputs *)

UserIds == {1, 12}
Cities == {"Almaty", "Astana"}
None == "None"
NoTimes == [k \in {} |-> <<>>]    \* the falsy result of a failed fetch

-----------------------------------------------------------------------------
(* Character-level strings *)

DigitChars == <<"0", "1", "2", "3", "4", "5", "6", "7", "8", "9">>

IsDigit(c) == \E d \in 1..10 : DigitChars[d] = c

DigitValue(c) == (CHOOSE d \in 1..10 : DigitChars[d] = c) - 1

RECURSIVE Str(_)
Str(n) == IF n < 10 THEN <<DigitChars[n + 1]>>
          ELSE Str(n \div 10) \o <<DigitChars[(n % 10) + 1]>>

IsSubstring(needle, hay) ==
    \E i \in 1..(Len(hay) - Len(needle) + 1) :
        SubSeq(hay, i, i + Len(needle) - 1) = needle

(* str.split(':') : the parts between the colons, at least one part *)
RECURSIVE Split(_, _)
Split(s, acc) ==
    IF s = <<>> THEN <<acc>>
    ELSE IF Head(s) = ":" THEN <<acc>> \o Split(Tail(s), <<>>)
    ELSE Split(Tail(s), Append(acc, Head(s)))

(* int(part) of a part made of the characters used here: a value for a
   non-empty run of decimal digits, ValueError (-1) for anything else *)
RECURSIVE IntValue(_, _)
IntValue(part, acc) ==
    IF part = <<>> THEN acc
    ELSE IntValue(Tail(part), acc * 10 + DigitValue(Head(part)))

ParseInt(part) ==
    IF part # <<>> /\ \A i \in 1..Len(part) : IsDigit(part[i])
    THEN IntValue(part, 0)
    ELSE -1

-----------------------------------------------------------------------------
(* Timings as the Time Source returns them *)

(* faulty variant of PrayerNames: sunrise is scheduled like a prayer *)
PrayerNamesWithSunrise == <<"Fajr", "Sunrise", "Dhuhr", "Asr", "Maghrib", "Isha">>

PrayerNames == <<"Fajr", "Dhuhr", "Asr", "Maghrib", "Isha">>
Prayers == {PrayerNames[i] : i \in 1..Len(PrayerNames)}
TimingKeys == Prayers \cup {"Sunrise"}

T0510 == <<"0", "5", ":", "1", "0">>
T0640 == <<"0", "6", ":", "4", "0">>
T1230 == <<"1", "2", ":", "3", "0">>
T1600 == <<"1", "6", ":", "0", "0">>
T1845 == <<"1", "8", ":", "4", "5">>
T2015 == <<"2", "0", ":", "1", "5">>
T0455 == <<"0", "4", ":", "5", "5">>
T0625 == <<"0", "6", ":", "2", "5">>
T1231 == <<"1", "2", ":", "3", "1">>
T1605 == <<"1", "6", ":", "0", "5">>
T1850 == <<"1", "8", ":", "5", "0">>
T2020 == <<"2", "0", ":", "2", "0">>
TZoned == <<"1", "6", ":", "0", "0", " ", "(", "+", "0", "5", ")">>

TimingsA == [k \in TimingKeys |->
    CASE k = "Fajr" -> T0510 [] k = "Sunrise" -> T0640 [] k = "Dhuhr" -> T1230
      [] k = "Asr" -> T1600 [] k = "Maghrib" -> T1845 [] k = "Isha" -> T2015]

TimingsB == [k \in TimingKeys |->
    CASE k = "Fajr" -> T0455 [] k = "Sunrise" -> T0625 [] k = "Dhuhr" -> T1231
      [] k = "Asr" -> T1605 [] k = "Maghrib" -> T1850 [] k = "Isha" -> T2020]

(* a body of code 200 whose Asr entry carries a zone suffix *)
TimingsZonedAsr == [TimingsA EXCEPT !["Asr"] = TZoned]

TimingTables == {TimingsA, TimingsB, TimingsZonedAsr}

(* What requests.get / raise_for_status / response.json() can give *)
Responses ==
    [kind : {"ok"}, timings : TimingTables]
    \cup [kind : {"network_error", "http_error", "code_not_200", "malformed_body"},
          timings : {NoTimes}]

(* the value that stands for an exception leaving get_prayer_times_sync *)
TimesRaised == [k \in {"raised"} |-> <<>>]

(* the try block of get_prayer_times_sync: the value it returns, or the
   exception of requests.get, raise_for_status, response.json() or of the
   subscripts on the body *)
TimesBody(resp) ==
    CASE resp.kind = "ok" ->
             [exc |-> "none", value |-> [k \in TimingKeys |-> resp.timings[k]]]
      [] resp.kind = "code_not_200" -> [exc |-> "none", value |-> NoTimes]
      [] resp.kind = "network_error" -> [exc |-> "Timeout", value |-> NoTimes]
      [] resp.kind = "http_error" -> [exc |-> "HTTPError", value |-> NoTimes]
      [] resp.kind = "malformed_body" -> [exc |-> "KeyError", value |-> NoTimes]

(* faulty variant of CaughtInFetch: except requests.exceptions.RequestException *)
CaughtRequestErrorsOnly(exc) == exc \in {"Timeout", "ConnectionError", "HTTPError"}

(* except Exception as e: ... return None *)
CaughtInFetch(exc) == TRUE

get_prayer_times_sync(resp) ==
    LET body == TimesBody(resp)
    IN  IF body.exc = "none" THEN body.value
        ELSE IF CaughtInFetch(body.exc) THEN NoTimes
        ELSE TimesRaised

-----------------------------------------------------------------------------
(* The job registry *)

NoLast == [outcome |-> "none", user |-> 0, times |-> NoTimes, before |-> {}]

(* faulty variant of ParseTime: the trigger is built without the minute *)
ParseTimeNoMinute(s) ==
    LET parts == Split(s, <<>>)
        h == IF Len(parts) = 2 THEN ParseInt(parts[1]) ELSE -1
        m == IF Len(parts) = 2 THEN ParseInt(parts[2]) ELSE -1
    IN  IF Len(parts) = 2 /\ h \in 0..23 /\ m \in 0..59
        THEN [ok |-> TRUE, hour |-> h, minute |-> 0]
        ELSE [ok |-> FALSE, hour |-> 0, minute |-> 0]

(* hour, minute = map(int, prayer_time.split(':')) and the CronTrigger
   built from them: ok is FALSE where the code raises ValueError (a string
   that is not two integers around one colon, an hour outside 0..23, a
   minute outside 0..59) *)
ParseTime(s) ==
    LET parts == Split(s, <<>>)
        h == IF Len(parts) = 2 THEN ParseInt(parts[1]) ELSE -1
        m == IF Len(parts) = 2 THEN ParseInt(parts[2]) ELSE -1
    IN  IF Len(parts) = 2 /\ h \in 0..23 /\ m \in 0..59
        THEN [ok |-> TRUE, hour |-> h, minute |-> m]
        ELSE [ok |-> FALSE, hour |-> 0, minute |-> 0]

(* id=f"prayer_{user_id}_{prayer_name}" *)
JobId(u, p) == <<"p", "r", "a", "y", "e", "r", "_">> \o Str(u) \o <<"_", p>>

(* faulty variant of NewJob: the id is built from the trigger time instead
   of the user id *)
NewJobKeyedByTime(u, p, h, m) ==
    [id |-> <<"p", "r", "a", "y", "e", "r", "_", "h">> \o Str(h) \o <<"m">> \o Str(m) \o <<"_", p>>,
     user |-> u, prayer |-> p, hour |-> h, minute |-> m]

(* the job that add_job registers: id, args=[user_id, prayer_name], trigger *)
NewJob(u, p, h, m) ==
    [id |-> JobId(u, p), user |-> u, prayer |-> p, hour |-> h, minute |-> m]

(* scheduler.add_job(..., replace_existing=True) *)
add_job(reg, job) == {j \in reg : j.id # job.id} \cup {job}

(* for job in get_jobs(): if str(user_id) in job.id: job.remove() *)
RemoveUserJobs(reg, u) == {j \in reg : ~IsSubstring(Str(u), j.id)}

(* the install loop from the i-th prayer on; it stops where a time string
   does not parse, leaving the registry as it is at that point *)
RECURSIVE InstallFrom(_, _, _, _)
InstallFrom(reg, u, times, i) ==
    IF i > Len(PrayerNames) THEN [jobs |-> reg, outcome |-> "installed"]
    ELSE LET p == PrayerNames[i]
             t == ParseTime(times[p])
         IN  IF ~t.ok THEN [jobs |-> reg, outcome |-> "raised"]
             ELSE InstallFrom(add_job(reg, NewJob(u, p, t.hour, t.minute)), u, times, i + 1)

(* faulty variant of Reschedule: the cancel loop runs before the test of
   the fetch result *)
RescheduleCancelFirst(reg, u, times) ==
    IF times = NoTimes THEN [jobs |-> RemoveUserJobs(reg, u), outcome |-> "no_times"]
    ELSE InstallFrom(RemoveUserJobs(reg, u), u, times, 1)

(* the body of schedule_prayer_notifications after the awaited fetch *)
Reschedule(reg, u, times) ==
    IF times = NoTimes THEN [jobs |-> reg, outcome |-> "no_times"]
    ELSE InstallFrom(RemoveUserJobs(reg, u), u, times, 1)

IdleCall == [pc |-> "idle", user |-> 0, city |-> None]

(* schedule_prayer_notifications is entered and awaits get_prayer_times *)
StartSchedule(c, u, city) ==
    /\ calls[c].pc = "idle"
    /\ calls' = [calls EXCEPT ![c] = [pc |-> "fetching", user |-> u, city |-> city]]
    /\ UNCHANGED <<jobs, last>>
    /\ UNCHANGED storeVars
    /\ UNCHANGED runVars

(* the fetch returns and the rest of the coroutine runs without yielding *)
FinishSchedule(c, resp) ==
    /\ calls[c].pc = "fetching"
    /\ LET u == calls[c].user
           times == get_prayer_times_sync(resp)
           r == Reschedule(jobs, u, times)
       IN  /\ jobs' = r.jobs
           /\ last' = [outcome |-> r.outcome, user |-> u, times |-> times, before |-> jobs]
    /\ calls' = [calls EXCEPT ![c] = IdleCall]
    /\ UNCHANGED storeVars
    /\ UNCHANGED runVars

-----------------------------------------------------------------------------
(* Specification of the scheduler *)

StoreIdle ==
    /\ users = {}
    /\ prayer_stats = EmptyBag
    /\ use_sqlite = TRUE
    /\ today = 1
    /\ reply = [kind |-> "none", user |-> 0, streak |-> 0, total |-> 0, completed |-> 0,
                percentage |-> 0]

SchedInit ==
    /\ jobs = {}
    /\ calls = [c \in 1..MaxCalls |-> IdleCall]
    /\ last = NoLast
    /\ RunIdle
    /\ StoreIdle

SchedNext ==
    \/ \E c \in 1..MaxCalls, u \in UserIds, city \in Cities : StartSchedule(c, u, city)
    \/ \E c \in 1..MaxCalls, resp \in Responses : FinishSchedule(c, resp)

SpecSched == SchedInit /\ [][SchedNext]_vars

-----------------------------------------------------------------------------
(* Properties of the job registry *)

UserJobs(reg, u) == {j \in reg : j.user = u}

(* the clock reading of a well-formed "HH:MM" string *)
ClockHour(s) == DigitValue(s[1]) * 10 + DigitValue(s[2])
ClockMinute(s) == DigitValue(s[4]) * 10 + DigitValue(s[5])

(* reg holds, for user u, exactly one job per prayer at the time of times *)
FiveJobsOf(reg, u, times) ==
    /\ Cardinality(UserJobs(reg, u)) = 5
    /\ \A p \in Prayers : \E j \in UserJobs(reg, u) :
           /\ j.prayer = p
           /\ j.hour = ClockHour(times[p])
           /\ j.minute = ClockMinute(times[p])

Rescheduled == last.outcome = "installed" /\ UserJobs(last.before, last.user) # {}

\* C1: when schedule_prayer_notifications installs timings for a user who
\* already had jobs, the user is left with exactly 5 jobs, one per prayer,
\* each at the hour:minute of the newer timings.
C1_RescheduleLeavesFiveNewJobs ==
    Rescheduled => FiveJobsOf(jobs, last.user, last.times)

C1_Witness ==
    /\ Rescheduled
    /\ Cardinality(UserJobs(last.before, last.user)) = 5
    /\ \E j \in UserJobs(last.before, last.user) :
           j.hour # ClockHour(last.times[j.prayer])
    /\ FiveJobsOf(jobs, last.user, last.times)

\* C2: a call of schedule_prayer_notifications for one user removes, adds
\* and changes no job of any other user.
C2_OtherUsersUntouched ==
    \A v \in UserIds :
        v # last.user => UserJobs(jobs, v) = UserJobs(last.before, v)

\* C3: the registry never holds two live jobs for the same (user, prayer).
C3_OneJobPerUserPrayer ==
    \A j1 \in jobs : \A j2 \in jobs :
        (j1.user = j2.user /\ j1.prayer = j2.prayer) => j1 = j2

C3_Witness ==
    /\ Rescheduled
    /\ \E c \in 1..MaxCalls : calls[c].pc = "fetching" /\ calls[c].user = last.user
    /\ \A p \in Prayers :
           Cardinality({j \in jobs : j.user = last.user /\ j.prayer = p}) = 1

\* C4: when the timing fetch fails, schedule_prayer_notifications leaves the
\* job registry exactly as it was.
C4_FailedFetchKeepsRegistry ==
    last.outcome = "no_times" => jobs = last.before

C4_Witness ==
    /\ last.outcome = "no_times"
    /\ Cardinality(UserJobs(jobs, last.user)) = 5
    /\ jobs = last.before

\* C5: after schedule_prayer_notifications returns or raises, the user's
\* jobs are either exactly the prior set or exactly five jobs built from
\* the new timings.
C5_ReplaceAllOrNothing ==
    last.outcome # "none" =>
        \/ UserJobs(jobs, last.user) = UserJobs(last.before, last.user)
        \/ FiveJobsOf(jobs, last.user, last.times)

\* C16: a successful schedule_prayer_notifications leaves the user with
\* exactly one job for each of Fajr, Dhuhr, Asr, Maghrib and Isha and with no
\* other job, none for sunrise; each job fires at the hour and minute written
\* in the fetched timings for its prayer.
C16_OneJobPerActionablePrayer ==
    last.outcome = "installed" =>
        /\ \A p \in {"Fajr", "Dhuhr", "Asr", "Maghrib", "Isha"} :
               /\ Cardinality({j \in UserJobs(jobs, last.user) : j.prayer = p}) = 1
               /\ \A j \in UserJobs(jobs, last.user) : j.prayer = p =>
                      /\ j.hour = ClockHour(last.times[p])
                      /\ j.minute = ClockMinute(last.times[p])
        /\ \A j \in UserJobs(jobs, last.user) :
               j.prayer \in {"Fajr", "Dhuhr", "Asr", "Maghrib", "Isha"}

C16_Witness ==
    /\ last.outcome = "installed"
    /\ UserJobs(last.before, last.user) = {}
    /\ "Sunrise" \in DOMAIN last.times
    /\ Cardinality(UserJobs(jobs, last.user)) = 5
    /\ \A j \in UserJobs(jobs, last.user) :
           j.hour # ClockHour(last.times["Sunrise"])

-----------------------------------------------------------------------------
(* The completion store *)

StreakCap == 100
MarkedPrayers == {"Fajr", "Isha"}     \* the names the mark commands are tried with

Names == {"Amir", "Aliya"}            \* first names a Telegram account may carry

(* the row an INSERT INTO users (user_id, username, first_name) creates:
   city and country are NULL, notifications_enabled has its default *)
UserRow(u, name) ==
    [user_id |-> u, first_name |-> name, city |-> None, country |-> None,
     notifications_enabled |-> TRUE]

(* faulty variant of add_user: INSERT OR REPLACE, the row is written anew *)
add_user_replace(tbl, u, name) ==
    {r \in tbl : r.user_id # u} \cup {UserRow(u, name)}

(* INSERT OR IGNORE INTO users / ON CONFLICT (user_id) DO NOTHING *)
add_user(tbl, u, name) ==
    IF \E r \in tbl : r.user_id = u THEN tbl ELSE tbl \cup {UserRow(u, name)}

(* faulty variant of StatRow: the value given for completed is not stored *)
StatRowFlagDropped(u, p, d, done) ==
    [user_id |-> u, prayer_name |-> p, prayer_date |-> d, completed |-> FALSE]

(* a row of prayer_stats as the statements and queries see it *)
StatRow(u, p, d, done) ==
    [user_id |-> u, prayer_name |-> p, prayer_date |-> d, completed |-> done]

SameKey(r, u, p, d) == r.user_id = u /\ r.prayer_name = p /\ r.prayer_date = d

(* the rows of a bag that are in keep, with their multiplicities *)
RowsIn(rows, keep) == [r \in keep \cap DOMAIN rows |-> rows[r]]

(* faulty variant of MarkRows: the row keeps the column default of completed *)
MarkRowsFlagDefault(rows, sqlite, u, p, d) ==
    IF sqlite
    THEN rows (+) SetToBag({StatRow(u, p, d, FALSE)})
    ELSE LET others == RowsIn(rows, {r \in DOMAIN rows : ~SameKey(r, u, p, d)})
         IN  others (+) SetToBag({StatRow(u, p, d, FALSE)})

(* Database.mark_prayer_completed.  The SQLite table has no uniqueness
   constraint but the autoincrement id, so INSERT OR REPLACE always inserts;
   the PostgreSQL table has UNIQUE(user_id, prayer_name, prayer_date) and the
   statement updates the row it conflicts with.  The id column is read by no
   query, so the table is a bag of (user, prayer, date, completed) rows. *)
MarkRows(rows, sqlite, u, p, d) ==
    IF sqlite
    THEN rows (+) SetToBag({StatRow(u, p, d, TRUE)})
    ELSE LET others == RowsIn(rows, {r \in DOMAIN rows : ~SameKey(r, u, p, d)})
         IN  others (+) SetToBag({StatRow(u, p, d, TRUE)})

(* the foreign key on prayer_stats.user_id is enforced by PostgreSQL only *)
MarkRejected(tbl, sqlite, u) == ~sqlite /\ ~\E r \in tbl : r.user_id = u

(* Database.get_prayer_stats: the user's rows dated no earlier than the
   database's current date minus days *)
get_prayer_stats(rows, u, days, db_today) ==
    RowsIn(rows, {r \in DOMAIN rows : r.user_id = u /\ r.prayer_date >= db_today - days})

(* day_stats of calculate_streak and get_last_7_days_chart *)
DayStats(stats, d) ==
    RowsIn(stats, {r \in DOMAIN stats : r.prayer_date = d /\ r.completed})

(* the while loop of calculate_streak; every turn fetches the same window *)
RECURSIVE StreakWalk(_, _, _)
StreakWalk(stats, streak, current_date) ==
    IF DayStats(stats, current_date) = EmptyBag THEN streak
    ELSE IF streak + 1 > StreakCap THEN streak + 1
    ELSE StreakWalk(stats, streak + 1, current_date - 1)

(* faulty variant of calculate_streak: the walk starts at yesterday when
   today has no completion *)
StreakFromLatestDay(rows, u, day, db_today) ==
    LET stats == get_prayer_stats(rows, u, 1, db_today)
    IN  IF DayStats(stats, day) = EmptyBag
        THEN StreakWalk(stats, 0, day - 1)
        ELSE StreakWalk(stats, 0, day)

(* calculate_streak: the walk over get_prayer_stats(user_id, days=1) *)
calculate_streak(rows, u, day, db_today) ==
    StreakWalk(get_prayer_stats(rows, u, 1, db_today), 0, day)

NoReply ==
    [kind |-> "none", user |-> 0, streak |-> 0, total |-> 0, completed |-> 0,
     percentage |-> 0]

(* faulty variant of Percentage: the quotient is taken with // *)
PercentageFloored(completed, total) ==
    IF total > 0 THEN ((completed * 100) \div total) * 10 ELSE 0

(* percentage = (completed_count/total_count*100) if total_count > 0 else 0,
   as f"{percentage:.1f}" prints it: in tenths of a percent, rounded to the
   nearest tenth and from a half to the even one *)
Percentage(completed, total) ==
    IF total > 0
    THEN LET q == (completed * 1000) \div total
             r == (completed * 1000) % total
         IN  IF 2 * r > total \/ (2 * r = total /\ q % 2 = 1) THEN q + 1 ELSE q
    ELSE 0

(* /start *)
Start(u, name) ==
    /\ users' = add_user(users, u, name)
    /\ reply' = [NoReply EXCEPT !.kind = "welcome", !.user = u]
    /\ UNCHANGED <<prayer_stats, use_sqlite, today>>
    /\ UNCHANGED schedVars
    /\ UNCHANGED runVars

(* IslamicBot.mark_prayer_completed while the table holds at most cap rows *)
MarkPrayerWithin(u, p, cap) ==
    /\ BagCardinality(MarkRows(prayer_stats, use_sqlite, u, p, today)) <= cap
    /\ IF MarkRejected(users, use_sqlite, u)
       THEN /\ prayer_stats' = prayer_stats
            /\ reply' = [NoReply EXCEPT !.kind = "mark_raised", !.user = u]
       ELSE /\ prayer_stats' = MarkRows(prayer_stats, use_sqlite, u, p, today)
            /\ reply' = [NoReply EXCEPT
                            !.kind = "marked", !.user = u,
                            !.streak = calculate_streak(prayer_stats', u, today, today)]
    /\ UNCHANGED <<users, use_sqlite, today>>
    /\ UNCHANGED schedVars
    /\ UNCHANGED runVars

(* IslamicBot.mark_prayer_completed, from /markprayer or a mark_prayer_ button *)
MarkPrayer(u, p) == MarkPrayerWithin(u, p, MaxRows)

(* "x" * n: a string of n characters, empty when n is negative *)
Repeat(n) == IF n > 0 THEN n ELSE 0

(* one line of get_last_7_days_chart: the date, the filled and the empty
   cells of the bar, and the count printed before "/5" *)
ChartLine(stats, date) ==
    LET completed_count == BagCardinality(DayStats(stats, date))
    IN  [date |-> date, completed_count |-> completed_count,
         filled |-> Repeat(completed_count), empty |-> Repeat(5 - completed_count)]

(* get_last_7_days_chart: the lines of day - 6 .. day, each over
   get_prayer_stats(user_id, days=7) *)
get_last_7_days_chart(rows, u, day, db_today) ==
    [i \in 1..7 |-> ChartLine(get_prayer_stats(rows, u, 7, db_today), day - 7 + i)]

(* IslamicBot.show_stats *)
ShowStats(u) ==
    /\ LET stats == get_prayer_stats(prayer_stats, u, 30, today)
           done == RowsIn(stats, {r \in DOMAIN stats : r.completed})
       IN  IF stats = EmptyBag
           THEN reply' = [NoReply EXCEPT !.kind = "no_stats", !.user = u]
           ELSE reply' = [kind |-> "stats", user |-> u,
                          streak |-> calculate_streak(prayer_stats, u, today, today),
                          total |-> BagCardinality(stats),
                          completed |-> BagCardinality(done),
                          percentage |-> Percentage(BagCardinality(done),
                                                    BagCardinality(stats)),
                          chart |-> get_last_7_days_chart(prayer_stats, u, today, today)]
    /\ UNCHANGED <<users, prayer_stats, use_sqlite, today>>
    /\ UNCHANGED schedVars
    /\ UNCHANGED runVars

(* the calendar date changes; datetime.now().date() of the process and the
   current date of the database (date('now'), CURRENT_DATE) are the same day *)
NextDay ==
    /\ today < MaxDay
    /\ today' = today + 1
    /\ reply' = NoReply
    /\ UNCHANGED <<users, prayer_stats, use_sqlite>>
    /\ UNCHANGED schedVars
    /\ UNCHANGED runVars

StoreInit ==
    /\ users = {}
    /\ prayer_stats = EmptyBag
    /\ use_sqlite \in BOOLEAN
    /\ today = 1
    /\ reply = NoReply
    /\ jobs = {}
    /\ calls = [c \in 1..MaxCalls |-> IdleCall]
    /\ last = NoLast
    /\ RunIdle

StoreNext ==
    \/ \E u \in UserIds : Start(u, "Amir")
    \/ \E u \in UserIds, p \in MarkedPrayers : MarkPrayer(u, p)
    \/ \E u \in UserIds : ShowStats(u)
    \/ NextDay

SpecStore == StoreInit /\ [][StoreNext]_vars

-----------------------------------------------------------------------------
(* Properties of the completion store *)

(* user u has a completed prayer recorded on day d *)
CompletedOn(rows, u, d) ==
    \E r \in DOMAIN rows : r.user_id = u /\ r.prayer_date = d /\ r.completed

(* length of the unbroken run of days with a completion that ends on day d *)
RECURSIVE RunLength(_, _, _)
RunLength(rows, u, d) ==
    IF d < 1 \/ ~CompletedOn(rows, u, d) THEN 0
    ELSE 1 + RunLength(rows, u, d - 1)

RowsOfKey(rows, u, p, d) ==
    BagCardinality(RowsIn(rows, {r \in DOMAIN rows : SameKey(r, u, p, d)}))

(* what the stats queries return for user u on a store *)
StatsView(rows, u) ==
    LET window == get_prayer_stats(rows, u, 30, today)
        week == get_prayer_stats(rows, u, 7, today)
    IN  [total |-> BagCardinality(window),
         completed |-> BagCardinality(RowsIn(window, {r \in DOMAIN window : r.completed})),
         streak |-> calculate_streak(rows, u, today, today),
         per_day |-> [d \in 1..MaxDay |-> BagCardinality(DayStats(week, d))]]

(* the store as it is when every key was marked once only *)
MarkedOnce == SetToBag(DOMAIN prayer_stats)

StreakReported == reply.kind \in {"marked", "stats"}

\* C6: marking the same (user, prayer, date) twice leaves exactly one stored
\* row, completed, and the stats queries return what they return after one
\* call, on either backend.
C6_MarkTwiceSameAsOnce ==
    /\ \A r \in DOMAIN prayer_stats :
           r.completed /\ RowsOfKey(prayer_stats, r.user_id, r.prayer_name, r.prayer_date) = 1
    /\ \A u \in UserIds : StatsView(prayer_stats, u) = StatsView(MarkedOnce, u)

\* C7: calculate_streak returns the length of the unbroken run of days with
\* a completion that ends today (5 for five consecutive days).
C7_StreakIsRunLength ==
    StreakReported => reply.streak = RunLength(prayer_stats, reply.user, today)

\* C8: with no completed prayer recorded for today, calculate_streak
\* returns 0 whatever the earlier days hold.
C8_NoCompletionTodayStreakZero ==
    (StreakReported /\ ~CompletedOn(prayer_stats, reply.user, today))
        => reply.streak = 0

C8_Witness ==
    /\ reply.kind = "stats"
    /\ ~CompletedOn(prayer_stats, reply.user, today)
    /\ CompletedOn(prayer_stats, reply.user, today - 1)
    /\ reply.streak = 0

\* C9: right after a successful mark_prayer_completed for a user, the
\* streak computed for that user is at least 1.
C9_MarkedDayCounts ==
    reply.kind = "marked" => reply.streak >= 1

C9_Witness ==
    /\ reply.kind = "marked"
    /\ reply.streak >= 1
    /\ BagCardinality(RowsIn(prayer_stats,
            {r \in DOMAIN prayer_stats : r.user_id = reply.user /\ r.prayer_date = today})) = 1

\* C10: the backward walk stops at the first day with zero completions or
\* after 100 counted days, so the streak never exceeds 100.
C10_WalkStopsAtGapOrCap ==
    StreakReported =>
        /\ reply.streak <= StreakCap
        /\ \/ reply.streak = StreakCap
           \/ ~CompletedOn(prayer_stats, reply.user, today - reply.streak)

-----------------------------------------------------------------------------
(* The next-prayer resolver *)

DaySeconds == 86400

T0030 == <<"0", "0", ":", "3", "0">>
T2400 == <<"2", "4", ":", "0", "0">>
TDashes == <<"-", "-", ":", "-", "-">>

(* Isha after midnight, as in high-latitude summers *)
TimingsLateIsha == [TimingsA EXCEPT !["Isha"] = T0030]
(* Dhuhr and Asr at the same clock time *)
TimingsTied == [TimingsA EXCEPT !["Asr"] = T1230]
(* no Isha key, an empty Fajr string, an hour that no clock shows *)
TimingsNoIsha == [k \in TimingKeys \ {"Isha"} |-> TimingsA[k]]
TimingsEmptyFajr == [TimingsA EXCEPT !["Fajr"] = <<>>]
TimingsHour24 == [TimingsA EXCEPT !["Isha"] = T2400]
TimingsAllBad == [k \in TimingKeys |-> IF k = "Asr" THEN TZoned ELSE TDashes]

NextTimings ==
    {TimingsA, TimingsB, TimingsZonedAsr, TimingsLateIsha, TimingsTied,
     TimingsNoIsha, TimingsEmptyFajr, TimingsHour24, TimingsAllBad}

(* datetime.now(): the seconds stand for any instant inside the minute *)
NowMinutes == {0, 10, 15, 20, 30, 45, 50}
Nows == [hour : 0..23, minute : NowMinutes, second : {0, 30}]

NowSeconds(now) == now.hour * 3600 + now.minute * 60 + now.second

NoNext == [name |-> None, time |-> <<>>, tomorrow |-> FALSE]
NextRaised == [name |-> "raised", time |-> <<>>, tomorrow |-> FALSE]

(* prayer_hour, prayer_minute = map(int, s.split(':')) and
   now.replace(hour=..., minute=..., second=0, microsecond=0): the second of
   the day of the candidate on today's date, or the exception raised *)
CandidateToday(s) ==
    LET parts == Split(s, <<>>)
        h == IF Len(parts) = 2 THEN ParseInt(parts[1]) ELSE -1
        m == IF Len(parts) = 2 THEN ParseInt(parts[2]) ELSE -1
    IN  IF Len(parts) = 2 /\ h \in 0..23 /\ m \in 0..59
        THEN [exc |-> "none", at |-> h * 3600 + m * 60]
        ELSE [exc |-> "ValueError", at |-> 0]

(* faulty variant of Passed: a candidate equal to now is kept on today *)
PassedOnlyIfBefore(at, now) == at < NowSeconds(now)

(* if prayer_datetime <= now: prayer_datetime += timedelta(days=1) *)
Passed(at, now) == at <= NowSeconds(now)

(* faulty variant of Closer: a later prayer of equal delta replaces the first *)
CloserOrEqual(diff, best) == best.name = None \/ diff <= best.diff

(* if min_time_diff is None or time_diff < min_time_diff *)
Closer(diff, best) == best.name = None \/ diff < best.diff

(* faulty variant of CaughtInLoop: only AttributeError is caught *)
CaughtAttributeErrorOnly(exc) == exc = "AttributeError"

(* except (ValueError, AttributeError): continue *)
CaughtInLoop(exc) == exc \in {"ValueError", "AttributeError"}

(* faulty variant of IsTomorrow: the dates are compared with >= *)
IsTomorrowOrToday(at) == at >= 0

(* if prayer_datetime.date() > now.date() *)
IsTomorrow(at) == at >= DaySeconds

(* the for loop of get_next_prayer from the i-th name on; best is
   next_prayer with min_time_diff, name None while there is none *)
RECURSIVE NextLoop(_, _, _, _)
NextLoop(times, now, i, best) ==
    IF i > Len(PrayerNames) THEN best
    ELSE LET prayer == PrayerNames[i]
             s == IF prayer \in DOMAIN times THEN times[prayer] ELSE <<>>
             c == CandidateToday(s)
             at == IF Passed(c.at, now) THEN c.at + DaySeconds ELSE c.at
             diff == at - NowSeconds(now)
         IN  IF s = <<>> THEN NextLoop(times, now, i + 1, best)
             ELSE IF c.exc # "none"
             THEN IF CaughtInLoop(c.exc) THEN NextLoop(times, now, i + 1, best)
                  ELSE [name |-> "raised", time |-> <<>>, at |-> 0, diff |-> 0]
             ELSE IF Closer(diff, best)
             THEN NextLoop(times, now, i + 1,
                           [name |-> prayer, time |-> s, at |-> at, diff |-> diff])
             ELSE NextLoop(times, now, i + 1, best)

get_next_prayer(times, now) ==
    LET best == NextLoop(times, now, 1, [name |-> None, time |-> <<>>, at |-> 0, diff |-> 0])
    IN  IF best.name = "raised" THEN NextRaised
        ELSE IF best.name = None THEN NoNext
        ELSE [name |-> best.name, time |-> best.time, tomorrow |-> IsTomorrow(best.at)]

(* get_next_prayer is applied to a timing map at an instant *)
NextPrayer(times, now) ==
    /\ reply = NoReply
    /\ reply' = [kind |-> "next_prayer", times |-> times, now |-> now,
                 result |-> get_next_prayer(times, now)]
    /\ UNCHANGED <<users, prayer_stats, use_sqlite, today>>
    /\ UNCHANGED schedVars
    /\ UNCHANGED runVars

NextInit == SchedInit

NextNext == \E times \in NextTimings, now \in Nows : NextPrayer(times, now)

SpecNext == NextInit /\ [][NextNext]_vars

-----------------------------------------------------------------------------
(* Properties of the next-prayer resolver *)

ResolverRan == reply.kind = "next_prayer"

(* s reads as a clock time HH:MM *)
WellFormed(s) ==
    /\ Len(s) = 5
    /\ s[3] = ":"
    /\ \A i \in {1, 2, 4, 5} : IsDigit(s[i])
    /\ ClockHour(s) <= 23
    /\ ClockMinute(s) <= 59

WellFormedPrayers(times) == {p \in Prayers \cap DOMAIN times : WellFormed(times[p])}

ClockSeconds(s) == ClockHour(s) * 3600 + ClockMinute(s) * 60

(* seconds from now to the next occurrence of clock time s: today's when it
   is strictly after now, tomorrow's otherwise *)
ForwardDelta(s, now) ==
    IF ClockSeconds(s) > NowSeconds(now)
    THEN ClockSeconds(s) - NowSeconds(now)
    ELSE ClockSeconds(s) + DaySeconds - NowSeconds(now)

PrayerIndex(p) == CHOOSE i \in 1..Len(PrayerNames) : PrayerNames[i] = p

(* p is the prayer of smallest forward delta among the prayers in among, the
   first of them in the order of PrayerNames *)
FirstNearest(p, among, times, now) ==
    /\ p \in among
    /\ \A q \in among :
           \/ ForwardDelta(times[p], now) < ForwardDelta(times[q], now)
           \/ /\ ForwardDelta(times[p], now) = ForwardDelta(times[q], now)
              /\ PrayerIndex(p) <= PrayerIndex(q)

(* the five times follow each other within one calendar day *)
Ascending(times) ==
    \A i \in 1..(Len(PrayerNames) - 1) :
        ClockSeconds(times[PrayerNames[i]]) < ClockSeconds(times[PrayerNames[i + 1]])

(* now is the exact clock time of prayer p *)
ExactlyAt(p, times, now) ==
    now.second = 0 /\ ClockSeconds(times[p]) = NowSeconds(now)

\* C11: for a timing map with five well-formed HH:MM entries and any now,
\* get_next_prayer returns one of the five names with its time string, one
\* whose forward delta from now is the smallest of the five, and among
\* prayers of equal delta the first in the order Fajr, Dhuhr, Asr, Maghrib,
\* Isha.
C11_NearestPrayerFirstInOrder ==
    (ResolverRan /\ WellFormedPrayers(reply.times) = Prayers) =>
        /\ reply.result.name \in Prayers
        /\ reply.result.time = reply.times[reply.result.name]
        /\ FirstNearest(reply.result.name, Prayers, reply.times, reply.now)

C11_Witness ==
    /\ ResolverRan
    /\ WellFormedPrayers(reply.times) = Prayers
    /\ reply.result.name = "Dhuhr"
    /\ ForwardDelta(reply.times["Asr"], reply.now)
           = ForwardDelta(reply.times["Dhuhr"], reply.now)

\* C12 as stated: when now equals a prayer's exact clock time, the prayer is
\* not selected for today and the result is the prayer after it, Fajr of the
\* next day when the prayer was Isha.
C12_ExactTimeGivesFollowingPrayer ==
    (ResolverRan /\ WellFormedPrayers(reply.times) = Prayers) =>
        \A p \in Prayers : ExactlyAt(p, reply.times, reply.now) =>
            /\ ~(reply.result.name = p /\ ~reply.result.tomorrow)
            /\ IF p = "Isha"
               THEN reply.result.name = "Fajr" /\ reply.result.tomorrow
               ELSE reply.result.name = PrayerNames[PrayerIndex(p) + 1]

\* C12: when now equals a prayer's exact clock time, the prayer is never
\* selected for today; when the five times are in ascending clock order the
\* result is the prayer after it, later today, and Fajr of the next day when
\* the prayer was Isha.
C12_ExactTimeIsPassed ==
    (ResolverRan /\ WellFormedPrayers(reply.times) = Prayers) =>
        \A p \in Prayers : ExactlyAt(p, reply.times, reply.now) =>
            /\ ~(reply.result.name = p /\ ~reply.result.tomorrow)
            /\ Ascending(reply.times) =>
                   IF p = "Isha"
                   THEN reply.result.name = "Fajr" /\ reply.result.tomorrow
                   ELSE /\ reply.result.name = PrayerNames[PrayerIndex(p) + 1]
                        /\ ~reply.result.tomorrow

C12_Witness ==
    /\ ResolverRan
    /\ WellFormedPrayers(reply.times) = Prayers
    /\ Ascending(reply.times)
    /\ ExactlyAt("Isha", reply.times, reply.now)
    /\ reply.result.name = "Fajr"
    /\ reply.result.tomorrow

\* C13: the result is annotated tomorrow exactly when none of the five times
\* of today is strictly after now; with Fajr 05:10, Dhuhr 12:30, Asr 16:00,
\* Maghrib 18:45, Isha 20:15, now 18:50 gives Isha at 20:15 unannotated and
\* now 20:20 gives Fajr at 05:10 annotated tomorrow.
C13_TomorrowIffNothingLeftToday ==
    (ResolverRan /\ WellFormedPrayers(reply.times) = Prayers) =>
        /\ reply.result.tomorrow <=>
               \A q \in Prayers : ClockSeconds(reply.times[q]) <= NowSeconds(reply.now)
        /\ (reply.times = TimingsA /\ reply.now.hour = 18 /\ reply.now.minute = 50) =>
               reply.result = [name |-> "Isha", time |-> T2015, tomorrow |-> FALSE]
        /\ (reply.times = TimingsA /\ reply.now.hour = 20 /\ reply.now.minute = 20) =>
               reply.result = [name |-> "Fajr", time |-> T0510, tomorrow |-> TRUE]

C13_Witness ==
    /\ ResolverRan
    /\ reply.times = TimingsA
    /\ reply.now = [hour |-> 20, minute |-> 20, second |-> 0]
    /\ reply.result = [name |-> "Fajr", time |-> T0510, tomorrow |-> TRUE]

\* C14: entries that are missing or malformed are passed over: the result is
\* the nearest of the well-formed entries, chosen as if the others were not
\* there, and it is the empty result, not an exception, when no entry is
\* well formed.
C14_MalformedEntriesSkipped ==
    ResolverRan =>
        /\ reply.result # NextRaised
        /\ IF WellFormedPrayers(reply.times) = {}
           THEN reply.result = NoNext
           ELSE /\ FirstNearest(reply.result.name, WellFormedPrayers(reply.times),
                                reply.times, reply.now)
                /\ reply.result.time = reply.times[reply.result.name]

C14_Witness ==
    /\ ResolverRan
    /\ reply.times = TimingsZonedAsr
    /\ reply.now = [hour |-> 13, minute |-> 0, second |-> 0]
    /\ reply.result = [name |-> "Maghrib", time |-> T1845, tomorrow |-> FALSE]

-----------------------------------------------------------------------------
(* schedule_prayer_notifications step by step on the event loop *)

(* faulty variant of LoopFree: as if the cancel loop and every add_job were
   awaited, so that another coroutine may run in between *)
LoopFreeAlways(c) == TRUE

(* The asyncio event loop runs one coroutine at a time, from one await to
   the next.  After `await self.get_prayer_times(...)` the coroutine holds
   no await: get_jobs, job.remove and add_job of AsyncIOScheduler are plain
   calls.  So call c is started or resumed only while no other call is
   between its resumption and its return. *)
LoopFree(c) ==
    \A d \in (1..MaxCalls) \ {c} : calls[d].pc \notin {"resumed", "installing"}

(* a handler enters schedule_prayer_notifications *)
LoopStart(c, u, city) ==
    /\ LoopFree(c)
    /\ StartSchedule(c, u, city)

(* the awaited fetch returns: `if not times: return` *)
LoopResume(c, resp) ==
    /\ calls[c].pc = "fetching"
    /\ LoopFree(c)
    /\ LET times == get_prayer_times_sync(resp)
       IN  IF times = NoTimes
           THEN calls' = [calls EXCEPT ![c] = IdleCall]
           ELSE calls' = [calls EXCEPT ![c] =
                           [pc |-> "resumed", user |-> calls[c].user,
                            city |-> calls[c].city, times |-> times, i |-> 0]]
    /\ UNCHANGED <<jobs, last>>
    /\ UNCHANGED storeVars
    /\ UNCHANGED runVars

(* the cancel loop *)
LoopCancel(c) ==
    /\ calls[c].pc = "resumed"
    /\ jobs' = RemoveUserJobs(jobs, calls[c].user)
    /\ calls' = [calls EXCEPT ![c].pc = "installing", ![c].i = 1]
    /\ UNCHANGED last
    /\ UNCHANGED storeVars
    /\ UNCHANGED runVars

(* one turn of the install loop: the i-th add_job, or the exception of a
   time string that does not parse; the coroutine returns after the fifth *)
LoopInstall(c) ==
    /\ calls[c].pc = "installing"
    /\ LET u == calls[c].user
           p == PrayerNames[calls[c].i]
           t == ParseTime(calls[c].times[p])
       IN  IF ~t.ok
           THEN /\ calls' = [calls EXCEPT ![c] = IdleCall]
                /\ UNCHANGED jobs
           ELSE /\ jobs' = add_job(jobs, NewJob(u, p, t.hour, t.minute))
                /\ IF calls[c].i = Len(PrayerNames)
                   THEN calls' = [calls EXCEPT ![c] = IdleCall]
                   ELSE calls' = [calls EXCEPT ![c].i = @ + 1]
    /\ UNCHANGED last
    /\ UNCHANGED storeVars
    /\ UNCHANGED runVars

LoopInit == SchedInit

LoopNext ==
    \/ \E c \in 1..MaxCalls, u \in UserIds, city \in Cities : LoopStart(c, u, city)
    \/ \E c \in 1..MaxCalls, resp \in Responses : LoopResume(c, resp)
    \/ \E c \in 1..MaxCalls : LoopCancel(c)
    \/ \E c \in 1..MaxCalls : LoopInstall(c)

(* a fetch ends, by an answer or by its 10 s timeout, and the event loop runs
   every coroutine that is ready *)
LoopProgress ==
    \/ \E c \in 1..MaxCalls, resp \in Responses : LoopResume(c, resp)
    \/ \E c \in 1..MaxCalls : LoopCancel(c)
    \/ \E c \in 1..MaxCalls : LoopInstall(c)

SpecLoop == LoopInit /\ [][LoopNext]_vars /\ WF_vars(LoopProgress)

(* two calls for the same user are both between their cancel step and
   their last install step: the steps of one ran inside the other *)
StepsInterleaved ==
    \E c, d \in 1..MaxCalls :
        /\ c # d
        /\ calls[c].pc = "installing"
        /\ calls[d].pc = "installing"
        /\ calls[c].user = calls[d].user

-----------------------------------------------------------------------------
(* User records, the notification toggle and the firing of jobs *)

NoUser == [user_id |-> 0]

(* Database.get_user: the row of the user, or None *)
get_user(tbl, u) ==
    IF \E r \in tbl : r.user_id = u THEN CHOOSE r \in tbl : r.user_id = u ELSE NoUser

(* Database.update_user_city: UPDATE users SET city, country WHERE user_id *)
update_user_city(tbl, u, city, country) ==
    {IF r.user_id = u THEN [r EXCEPT !.city = city, !.country = country] ELSE r : r \in tbl}

(* Database.toggle_notifications: SELECT the flag, UPDATE it to its negation *)
toggle_notifications(tbl, u) ==
    {IF r.user_id = u THEN [r EXCEPT !.notifications_enabled = ~@] ELSE r : r \in tbl}

(* faulty variant of ShouldDeliver: the toggle is not read *)
ShouldDeliverAnyUser(user) == user # NoUser

(* if user and user.get('notifications_enabled') *)
ShouldDeliver(user) == user # NoUser /\ user.notifications_enabled

(* set_user_city: the city is written, the confirmation is sent, and
   schedule_prayer_notifications is entered and awaits the fetch *)
SetUserCity(c, u, city) ==
    /\ calls[c].pc = "idle"
    /\ users' = update_user_city(users, u, city, "Kazakhstan")
    /\ reply' = [NoReply EXCEPT !.kind = "city_set", !.user = u]
    /\ calls' = [calls EXCEPT ![c] = [pc |-> "fetching", user |-> u, city |-> city]]
    /\ UNCHANGED <<jobs, last>>
    /\ UNCHANGED <<prayer_stats, use_sqlite, today>>
    /\ UNCHANGED runVars

(* faulty variant of ToggleNotifications: switching off cancels the jobs *)
ToggleNotificationsCancelling(u) ==
    /\ IF get_user(users, u) = NoUser
       THEN /\ reply' = [NoReply EXCEPT !.kind = "need_city", !.user = u]
            /\ UNCHANGED <<users, jobs>>
       ELSE /\ users' = toggle_notifications(users, u)
            /\ jobs' = IF get_user(users, u).notifications_enabled
                       THEN {j \in jobs : j.user # u} ELSE jobs
            /\ reply' = [NoReply EXCEPT !.kind = "toggled", !.user = u]
    /\ UNCHANGED <<prayer_stats, use_sqlite, today>>
    /\ UNCHANGED <<calls, last>>
    /\ UNCHANGED runVars

(* IslamicBot.toggle_notifications, the /notifications command, when its
   database round trips meet no other toggle of the user *)
ToggleNotifications(u) ==
    /\ IF get_user(users, u) = NoUser
       THEN /\ reply' = [NoReply EXCEPT !.kind = "need_city", !.user = u]
            /\ UNCHANGED users
       ELSE /\ users' = toggle_notifications(users, u)
            /\ reply' = [NoReply EXCEPT !.kind = "toggled", !.user = u]
    /\ UNCHANGED <<prayer_stats, use_sqlite, today>>
    /\ UNCHANGED schedVars
    /\ UNCHANGED runVars

(* faulty variant of CaughtInSend: only a timeout of the transport is caught *)
CaughtTimedOutOnly(exc) == exc = "TimedOut"

(* except Exception as e: logger.error(...) around bot.send_message *)
CaughtInSend(exc) == TRUE

(* what bot.send_message raises for a recipient it cannot reach *)
SendErrors == {"Forbidden", "TimedOut"}

(* the scheduler fires job j: send_prayer_notification(user_id, prayer_name).
   sent is "ok" when bot.send_message went through, else the exception it
   raised; an exception that is not caught leaves the job function *)
FireJob(j, sent) ==
    /\ j \in jobs
    /\ reply' = [NoReply EXCEPT
                    !.kind = IF ~ShouldDeliver(get_user(users, j.user)) THEN "reminder_suppressed"
                             ELSE IF sent = "ok" THEN "reminder_sent"
                             ELSE IF CaughtInSend(sent) THEN "reminder_failed"
                             ELSE "job_raised",
                    !.user = j.user]
    /\ UNCHANGED <<users, prayer_stats, use_sqlite, today>>
    /\ UNCHANGED schedVars
    /\ UNCHANGED runVars

NotifyResponses ==
    {[kind |-> "ok", timings |-> TimingsA], [kind |-> "network_error", timings |-> NoTimes]}

NotifyInit == SchedInit

NotifyNext ==
    \/ \E u \in UserIds, name \in Names : Start(u, name)
    \/ \E u \in UserIds, city \in Cities : SetUserCity(1, u, city)
    \/ \E resp \in NotifyResponses : FinishSchedule(1, resp)
    \/ \E u \in UserIds : ToggleNotifications(u)
    \/ \E j \in jobs, sent \in {"ok"} \cup SendErrors : FireJob(j, sent)

SpecNotify == NotifyInit /\ [][NotifyNext]_vars

-----------------------------------------------------------------------------
(* Properties of user records and of the firing of jobs *)

RowsOfUser(u) == {r \in users : r.user_id = u}

Enabled(u) == \E r \in users : r.user_id = u /\ r.notifications_enabled

Fired == reply.kind \in {"reminder_sent", "reminder_failed", "reminder_suppressed", "job_raised"}

\* C15: a fired job attempts its delivery exactly when the user's toggle is
\* enabled at that moment: while the toggle is off every firing is
\* suppressed, and a firing goes out again once the toggle is on, whether
\* or not the jobs were scheduled anew in between.
C15_DeliveryFollowsToggleAtFireTime ==
    Fired => (reply.kind = "reminder_suppressed" <=> ~Enabled(reply.user))

C15_Witness ==
    /\ reply.kind = "reminder_suppressed"
    /\ RowsOfUser(reply.user) # {}
    /\ ~Enabled(reply.user)
    /\ Cardinality(UserJobs(jobs, reply.user)) = 5

\* C18: there is never more than one user record per id; no step removes a
\* user record; and /start for an id that already has a record answers as
\* usual and leaves the whole table, so that record's names, city, country
\* and toggle, unchanged.
C18_AddUserKeepsExistingRecord ==
    /\ [](\A u \in UserIds : Cardinality(RowsOfUser(u)) <= 1)
    /\ [][/\ \A r \in users : \E r2 \in users' : r2.user_id = r.user_id
          /\ \A u \in UserIds, name \in Names :
                 (Start(u, name) /\ RowsOfUser(u) # {}) =>
                     (users' = users /\ reply'.kind = "welcome")]_vars

C18_Witness ==
    /\ reply.kind = "welcome"
    /\ \E r \in RowsOfUser(reply.user) :
           /\ r.city # None
           /\ r.country # None
           /\ ~r.notifications_enabled

-----------------------------------------------------------------------------
(* show_stats over a table as the database holds it *)

ShowToday == 40
ShowTotals == {0, 1, 2, 3, 7, 40}
ShowCompleted == {0, 1, 2, 3, 7, 25, 40}

(* the i-th of forty (prayer, date) rows of user u: five prayers a day on
   today and the seven days before it; the first k of them are completed *)
SlotRow(u, i, k) ==
    StatRow(u, PrayerNames[((i - 1) % 5) + 1], ShowToday - ((i - 1) \div 5), i <= k)

(* The table is the persistent state of the database.  Its column completed
   has the default FALSE and show_stats counts the completed rows apart, so
   the table is drawn with n rows of user 1 of which k are completed, with or
   without a row of user 1 dated back days ago, and with or without rows of
   user 12. *)
ShowTable(n, k, back, other) ==
    LET mine == {SlotRow(1, i, k) : i \in 1..n}
        edge == IF back = 0 THEN {} ELSE {StatRow(1, "Fajr", ShowToday - back, TRUE)}
        theirs == IF other THEN {SlotRow(12, i, 1) : i \in 1..3} ELSE {}
    IN  SetToBag(mine \cup edge \cup theirs)

ShowInit ==
    /\ \E n \in ShowTotals, k \in ShowCompleted, back \in {0, 30, 31}, other \in BOOLEAN :
           /\ k <= n
           /\ prayer_stats = ShowTable(n, k, back, other)
    /\ users = {UserRow(1, "Amir"), UserRow(12, "Aliya")}
    /\ use_sqlite \in BOOLEAN
    /\ today = ShowToday
    /\ reply = NoReply
    /\ jobs = {}
    /\ calls = [c \in 1..MaxCalls |-> IdleCall]
    /\ last = NoLast
    /\ RunIdle

ShowNext == \E u \in UserIds : ShowStats(u)

SpecShow == ShowInit /\ [][ShowNext]_vars

(* the rows of user u dated within the 30 days before today or today, all of
   them or the completed ones *)
WindowCount(u, flags) ==
    BagCardinality(RowsIn(prayer_stats,
        {r \in DOMAIN prayer_stats :
            /\ r.user_id = u
            /\ today - r.prayer_date \in 0..30
            /\ r.completed \in flags}))

\* C19: show_stats reports as total the number of the user's rows of the
\* last 30 days, as completed the number of those with completed = true, and
\* as percentage completed / total x 100 to one decimal; the expression is 0
\* for a total of 0; 40 rows of which 25 are completed give exactly 62.5.
C19_StatsCountsAndPercentage ==
    /\ reply.kind = "stats" =>
           /\ reply.total = WindowCount(reply.user, BOOLEAN)
           /\ reply.completed = WindowCount(reply.user, {TRUE})
           /\ reply.total > 0
           /\ 2 * (reply.percentage * reply.total - reply.completed * 1000) <= reply.total
           /\ 2 * (reply.completed * 1000 - reply.percentage * reply.total) <= reply.total
           /\ (reply.total = 40 /\ reply.completed = 25) => reply.percentage = 625
    /\ reply.kind = "no_stats" => WindowCount(reply.user, BOOLEAN) = 0
    /\ Percentage(0, 0) = 0

C19_Witness ==
    /\ reply.kind = "stats"
    /\ reply.total = 40
    /\ reply.completed = 25
    /\ reply.percentage = 625
    /\ WindowCount(reply.user, {FALSE}) = 15

-----------------------------------------------------------------------------
(* The commands that show fetched data: /prayer and /mosques *)

(* elements of an Overpass answer; 0 stands for a coordinate that is absent *)
NodeA == [name |-> "Nur", lat |-> 43, lon |-> 76, center_lat |-> 0, center_lon |-> 0]
WayA == [name |-> "Nur", lat |-> 0, lon |-> 0, center_lat |-> 43, center_lon |-> 76]
WayB == [name |-> "Baiken", lat |-> 0, lon |-> 0, center_lat |-> 44, center_lon |-> 77]
Bare == [name |-> "Mosque", lat |-> 0, lon |-> 0, center_lat |-> 0, center_lon |-> 0]

ElementLists == {<<>>, <<NodeA>>, <<NodeA, WayA>>, <<WayB, NodeA>>, <<Bare>>, <<Bare, WayB>>}

NominatimFaults == {"timeout", "network_error", "status_not_200", "not_json", "no_coordinates"}
OverpassFaults == {"timeout", "status_not_200", "not_json", "remark_error"}

(* what the two requests of search_mosques_nominatim can give *)
GeoResponses ==
    [nominatim : NominatimFaults \cup {"empty"}, overpass : {"unused"}, elements : {<<>>}]
    \cup [nominatim : {"bbox", "point"}, overpass : OverpassFaults, elements : {<<>>}]
    \cup [nominatim : {"bbox", "point"}, overpass : {"elements"}, elements : ElementLists]

(* the loop over data.get('elements', []): duplicates of a name and elements
   without coordinates are passed over *)
RECURSIVE MosquesFrom(_, _, _, _)
MosquesFrom(els, i, seen, acc) ==
    IF i > Len(els) THEN acc
    ELSE LET e == els[i]
             direct == e.lat # 0 /\ e.lon # 0
             lat == IF direct THEN e.lat ELSE e.center_lat
             lon == IF direct THEN e.lon ELSE e.center_lon
         IN  IF e.name \in seen THEN MosquesFrom(els, i + 1, seen, acc)
             ELSE IF lat = 0 \/ lon = 0
             THEN MosquesFrom(els, i + 1, seen \cup {e.name}, acc)
             ELSE MosquesFrom(els, i + 1, seen \cup {e.name},
                              Append(acc, [name |-> e.name, lat |-> lat, lon |-> lon]))

(* the value that stands for an exception leaving search_mosques_nominatim *)
MosquesRaised == <<[name |-> "raised", lat |-> 0, lon |-> 0]>>

(* the try block of search_mosques_nominatim *)
SearchBody(g) ==
    CASE g.nominatim = "timeout" -> [exc |-> "Timeout", value |-> <<>>]
      [] g.nominatim = "network_error" -> [exc |-> "ConnectionError", value |-> <<>>]
      [] g.nominatim = "status_not_200" -> [exc |-> "none", value |-> <<>>]
      [] g.nominatim = "not_json" -> [exc |-> "JSONDecodeError", value |-> <<>>]
      [] g.nominatim = "empty" -> [exc |-> "none", value |-> <<>>]
      [] g.nominatim = "no_coordinates" -> [exc |-> "KeyError", value |-> <<>>]
      [] OTHER ->
         CASE g.overpass = "timeout" -> [exc |-> "Timeout", value |-> <<>>]
           [] g.overpass = "status_not_200" -> [exc |-> "none", value |-> <<>>]
           [] g.overpass = "not_json" -> [exc |-> "JSONDecodeError", value |-> <<>>]
           [] g.overpass = "remark_error" -> [exc |-> "none", value |-> <<>>]
           [] OTHER -> [exc |-> "none", value |-> MosquesFrom(g.elements, 1, {}, <<>>)]

(* except Timeout / except RequestException / except Exception: return [] *)
CaughtInSearch(exc) == TRUE

search_mosques_nominatim(g) ==
    LET body == SearchBody(g)
    IN  IF body.exc = "none" THEN body.value
        ELSE IF CaughtInSearch(body.exc) THEN <<>>
        ELSE MosquesRaised

HasCity(user) == user # NoUser /\ user.city # None

(* prayer_times_command; resp is what the Time Source gives to its fetch *)
PrayerTimesCommand(u, resp) ==
    /\ LET times == get_prayer_times_sync(resp)
           kind == IF ~HasCity(get_user(users, u)) THEN "need_city"
                   ELSE IF times = TimesRaised THEN "handler_raised"
                   ELSE IF times # NoTimes THEN "times"
                   ELSE "times_unavailable"
       IN  reply' = [kind |-> kind, user |-> u, source |-> "times", response |-> resp,
                     shown |-> IF kind = "times" THEN Cardinality(DOMAIN times) ELSE 0]
    /\ UNCHANGED <<users, prayer_stats, use_sqlite, today>>
    /\ UNCHANGED schedVars
    /\ UNCHANGED runVars

(* find_mosques; g is what Nominatim and Overpass give to its search *)
FindMosques(u, g) ==
    /\ LET mosques == search_mosques_nominatim(g)
           kind == IF ~HasCity(get_user(users, u)) THEN "need_city"
                   ELSE IF mosques = MosquesRaised THEN "handler_raised"
                   ELSE IF mosques = <<>> THEN "mosques_unavailable"
                   ELSE "mosques"
       IN  reply' = [kind |-> kind, user |-> u, source |-> "mosques", response |-> g,
                     shown |-> IF kind = "mosques" THEN Len(mosques) ELSE 0]
    /\ UNCHANGED <<users, prayer_stats, use_sqlite, today>>
    /\ UNCHANGED schedVars
    /\ UNCHANGED runVars

LookupInit == SchedInit

LookupNext ==
    \/ \E u \in UserIds : Start(u, "Amir")
    \/ \E u \in UserIds : SetUserCity(1, u, "Almaty")
    \/ \E resp \in NotifyResponses : FinishSchedule(1, resp)
    \/ \E u \in UserIds, resp \in Responses : PrayerTimesCommand(u, resp)
    \/ \E u \in UserIds, g \in GeoResponses : FindMosques(u, g)

SpecLookup == LookupInit /\ [][LookupNext]_vars

(* the call behind the last answer met a timeout, a status other than 200
   or a body it could not read *)
TimesFault == reply.response.kind # "ok"

GeoFault ==
    \/ reply.response.nominatim \in NominatimFaults
    \/ reply.response.overpass \in OverpassFaults

LookedUp ==
    reply.kind \in {"times", "times_unavailable", "mosques", "mosques_unavailable",
                    "handler_raised"}

C21_DeliveryFailureStaysInsideTheJob ==
    /\ [](reply.kind # "job_raised")
    /\ [][(Fired' /\ reply' # reply) =>
              /\ jobs' = jobs
              /\ users' = users
              /\ calls' = calls]_vars

C21_Witness ==
    /\ reply.kind = "reminder_failed"
    /\ Cardinality(UserJobs(jobs, reply.user)) = 5
    /\ \E k \in jobs : k.user # reply.user /\ Enabled(k.user)

-----------------------------------------------------------------------------
(* run(): the polling loop *)

max_conflict_retries == 3

(* faulty variant of GiveUp: the conflict is re-raised one conflict later *)
GiveUpLater(n) == n > max_conflict_retries

(* if conflict_count >= max_conflict_retries: raise *)
GiveUp(n) == n >= max_conflict_retries

(* wait_time = 20 * conflict_count *)
WaitTime(n) == 20 * n

(* what a call of run_polling ends with: it returns when the application is
   stopped, or it raises Conflict or another exception *)
PollingEnds == {"returns", "Conflict", "NetworkError"}

(* run() is entered and comes to the test of the while loop *)
EnterRun ==
    /\ polling.pc = "created"
    /\ polling' = [polling EXCEPT !.pc = "loop"]
    /\ UNCHANGED toggling
    /\ UNCHANGED schedVars
    /\ UNCHANGED storeVars

(* while conflict_count < max_conflict_retries: self.app.run_polling(...) *)
EnterPolling ==
    /\ polling.pc = "loop"
    /\ IF polling.conflict_count < max_conflict_retries
       THEN polling' = [polling EXCEPT !.pc = "polling", !.attempts = @ + 1]
       ELSE polling' = [polling EXCEPT !.pc = "returned"]
    /\ UNCHANGED toggling
    /\ UNCHANGED schedVars
    /\ UNCHANGED storeVars

(* run_polling ends: break, or the except clauses *)
LeavePolling(how) ==
    /\ polling.pc = "polling"
    /\ LET n == polling.conflict_count + 1
       IN  polling' =
             CASE how = "returns" -> [polling EXCEPT !.pc = "returned"]
               [] how = "Conflict" ->
                    IF GiveUp(n)
                    THEN [polling EXCEPT !.pc = "raised", !.conflict_count = n,
                                         !.raised = how]
                    ELSE [polling EXCEPT !.pc = "loop", !.conflict_count = n,
                                         !.waits = Append(@, WaitTime(n))]
               [] OTHER -> [polling EXCEPT !.pc = "raised", !.raised = how]
    /\ UNCHANGED toggling
    /\ UNCHANGED schedVars
    /\ UNCHANGED storeVars

(* the handlers run inside run_polling *)
Serve ==
    /\ polling.pc = "polling"
    /\ \/ \E u \in UserIds, name \in Names : Start(u, name)
       \/ \E u \in UserIds : ToggleNotifications(u)

RunInit == SchedInit

RunNext ==
    \/ EnterRun
    \/ EnterPolling
    \/ \E how \in PollingEnds : LeavePolling(how)
    \/ Serve

SpecRun == RunInit /\ [][RunNext]_vars

\* C22: run() calls run_polling at most 3 times; the k-th conflict is followed
\* by a wait of 20 x k seconds before the next call; the third conflict is
\* re-raised; any other exception is re-raised at once, with no further call;
\* so the loop ends after at most three turns.
C22_ConflictsRetriedThreeTimes ==
    /\ polling.attempts <= 3
    /\ polling.conflict_count <= 3
    /\ polling.waits = [k \in 1..Len(polling.waits) |-> 20 * k]
    /\ polling.pc \in {"loop", "polling"} =>
           /\ Len(polling.waits) = polling.conflict_count
           /\ polling.attempts = polling.conflict_count
                                    + (IF polling.pc = "polling" THEN 1 ELSE 0)
    /\ polling.conflict_count = 3 <=> (polling.pc = "raised" /\ polling.raised = "Conflict")
    /\ (polling.pc = "raised" /\ polling.raised # "Conflict") =>
           /\ polling.attempts = polling.conflict_count + 1
           /\ Len(polling.waits) = polling.conflict_count
    /\ polling.pc = "raised" =>
           (~ENABLED EnterPolling /\ ~ENABLED (\E how \in PollingEnds : LeavePolling(how)))

C22_Witness ==
    /\ polling.pc = "raised"
    /\ polling.raised = "Conflict"
    /\ polling.attempts = 3
    /\ polling.waits = <<20, 40>>
    /\ users # {}

\* C23: a step of the /notifications command leaves the job registry as it
\* was: it adds, removes and reschedules no job, and a user who switched
\* notifications off keeps the five jobs.
C23_ToggleLeavesRegistry ==
    [][(reply'.kind \in {"toggled", "need_city"} /\ (users' # users \/ reply' # reply)) =>
          (jobs' = jobs /\ calls' = calls)]_vars

C23_Witness ==
    /\ reply.kind = "toggled"
    /\ ~Enabled(reply.user)
    /\ last.outcome = "installed"
    /\ last.user = reply.user
    /\ FiveJobsOf(jobs, reply.user, last.times)

-----------------------------------------------------------------------------
(* The two backends side by side *)

(* what mark_prayer_completed(u, p) does to the present store on a backend *)
MarkOutcome(sqlite, u, p) ==
    [raised |-> MarkRejected(users, sqlite, u),
     rows |-> IF MarkRejected(users, sqlite, u) THEN prayer_stats
              ELSE MarkRows(prayer_stats, sqlite, u, p, today)]

\* C24: the two backends are interchangeable: whenever a prayer is marked,
\* the SQLite and the PostgreSQL backend raise in the same cases and leave
\* the same rows, also for a user id that has no user record.
C24_BackendsInterchangeable ==
    [][\A u \in UserIds, p \in MarkedPrayers :
          MarkPrayer(u, p) => MarkOutcome(TRUE, u, p) = MarkOutcome(FALSE, u, p)]_vars

-----------------------------------------------------------------------------
(* City changes whose fetches overlap *)

CitySlots == {1, 2}

(* the timings the Time Source holds for a city *)
TimingsOf(city) == IF city = "Almaty" THEN TimingsA ELSE TimingsB

(* what the request for a city gives: the city's timings or a failure *)
CityResponse(city, ok) ==
    IF ok THEN [kind |-> "ok", timings |-> TimingsOf(city)]
    ELSE [kind |-> "network_error", timings |-> NoTimes]

CityInit == SchedInit

CityNext ==
    \/ \E u \in UserIds : Start(u, "Amir")
    \/ \E c \in CitySlots, u \in UserIds, city \in Cities : SetUserCity(c, u, city)
    \/ \E c \in CitySlots, ok \in BOOLEAN : FinishSchedule(c, CityResponse(calls[c].city, ok))

SpecCity == CityInit /\ [][CityNext]_vars

(* a set-city operation of user u is at its fetch *)
SettingCity(u) == \E c \in DOMAIN calls : calls[c].pc = "fetching" /\ calls[c].user = u

\* C25: whenever no set-city operation of a user is in progress, the jobs
\* installed for the user carry the times of the user's stored city, also
\* after two overlapping city changes and after a change whose fetch failed.
C25_JobsFollowStoredCity ==
    \A u \in UserIds :
        (~SettingCity(u) /\ HasCity(get_user(users, u)) /\ UserJobs(jobs, u) # {})
            => FiveJobsOf(jobs, u, TimingsOf(get_user(users, u).city))

\* C26: every user id that has installed jobs has a stored record with a
\* city, and no city is confirmed to a user id without a record.
C26_JobsOnlyForStoredUsers ==
    /\ \A j \in jobs : HasCity(get_user(users, j.user))
    /\ reply.kind = "city_set" => HasCity(get_user(users, reply.user))

-----------------------------------------------------------------------------
(* The notification toggle, one database round trip at a time *)

MaxToggles == 3

(* /notifications is handled up to the SELECT of Database.toggle_notifications:
   get_user finds no record and the handler asks for a city, or the SELECT
   returns the flag and the coroutine awaits the UPDATE *)
ToggleRead(t, u) ==
    /\ toggling.slot[t].pc = "idle"
    /\ toggling.done[u] < MaxToggles
    /\ IF get_user(users, u) = NoUser
       THEN /\ reply' = [kind |-> "need_city", user |-> u, new_state |-> FALSE]
            /\ UNCHANGED toggling
       ELSE /\ toggling' = [toggling EXCEPT !.slot[t] =
                    [pc |-> "read", user |-> u,
                     seen |-> get_user(users, u).notifications_enabled]]
            /\ UNCHANGED reply
    /\ UNCHANGED <<users, prayer_stats, use_sqlite, today, polling>>
    /\ UNCHANGED schedVars

(* new_state = not row[0]; UPDATE users SET notifications_enabled = new_state;
   return new_state, and the handler reports it *)
ToggleWrite(t) ==
    /\ toggling.slot[t].pc = "read"
    /\ LET u == toggling.slot[t].user
           new_state == ~toggling.slot[t].seen
       IN  /\ users' = {IF r.user_id = u THEN [r EXCEPT !.notifications_enabled = new_state]
                        ELSE r : r \in users}
           /\ reply' = [kind |-> "toggled", user |-> u, new_state |-> new_state]
           /\ toggling' = [toggling EXCEPT !.slot[t] = NoToggle, !.done[u] = @ + 1]
    /\ UNCHANGED <<prayer_stats, use_sqlite, today, polling>>
    /\ UNCHANGED schedVars

ToggleInit == SchedInit

ToggleNext ==
    \/ \E u \in UserIds : Start(u, "Amir")
    \/ \E t \in Togglers, u \in UserIds : ToggleRead(t, u)
    \/ \E t \in Togglers : ToggleWrite(t)

SpecToggle == ToggleInit /\ [][ToggleNext]_vars

(* a toggle of user u is between its SELECT and its UPDATE *)
TogglingNow(u) ==
    \E t \in Togglers : toggling.slot[t].pc = "read" /\ toggling.slot[t].user = u

\* C27: toggle_notifications returns the value it stored, leaves the store
\* alone for an unknown user, and after n finished toggles of a user,
\* sequential or overlapping, the flag is the initial one when n is even
\* and its negation when n is odd: no toggle is lost.
C27_NoToggleLost ==
    /\ reply.kind = "need_city" => RowsOfUser(reply.user) = {}
    /\ \A u \in UserIds :
           (RowsOfUser(u) # {} /\ ~TogglingNow(u)) =>
               (Enabled(u) <=> toggling.done[u] % 2 = 0)

-----------------------------------------------------------------------------
(* Marking by command and by button *)

ChartRows == 6
MarkUsers == {1}

(* valid_prayers of mark_prayer_handler *)
valid_prayers == Prayers

(* context.args of /markprayer: the words after the command *)
CommandArgs ==
    {<<>>, <<"Witr">>, <<"Fajr", "Isha">>} \cup {<<p>> : p \in Prayers}

MarkPrefix == "mark_prayer_"

(* callback data as a client may send it, cut into the prefix and the rest *)
CallbackData ==
    {<<MarkPrefix, "Fajr">>, <<MarkPrefix, "Witr">>, <<MarkPrefix>>,
     <<MarkPrefix, MarkPrefix, "Isha">>, <<"dua_", "morning">>}

(* query.data.replace("mark_prayer_", ""): every occurrence is removed *)
WithoutPrefix(data) ==
    LET rest == SelectSeq(data, LAMBDA part : part # MarkPrefix)
    IN  IF rest = <<>> THEN "" ELSE rest[1]

(* mark_prayer_handler: ' '.join(context.args) is one of valid_prayers only
   when args is a single valid name, as no name holds a space; any other
   argument, or none, gets the keyboard of the five buttons *)
MarkCommand(u, args) ==
    IF Len(args) = 1 /\ args[1] \in valid_prayers
    THEN MarkPrayerWithin(u, args[1], ChartRows)
    ELSE /\ reply' = [NoReply EXCEPT !.kind = "keyboard", !.user = u]
         /\ UNCHANGED <<users, prayer_stats, use_sqlite, today>>
         /\ UNCHANGED schedVars
         /\ UNCHANGED runVars

(* handle_callback: data that starts with mark_prayer_ is marked under what
   is left of it; other data goes to the other branches of the handler *)
MarkCallback(u, data) ==
    IF Head(data) = MarkPrefix
    THEN MarkPrayerWithin(u, WithoutPrefix(data), ChartRows)
    ELSE /\ reply' = [NoReply EXCEPT !.kind = "other_callback", !.user = u]
         /\ UNCHANGED <<users, prayer_stats, use_sqlite, today>>
         /\ UNCHANGED schedVars
         /\ UNCHANGED runVars

MarkInit == StoreInit

MarkNext ==
    \/ \E u \in MarkUsers : Start(u, "Amir")
    \/ \E u \in MarkUsers, args \in CommandArgs : MarkCommand(u, args)
    \/ \E u \in MarkUsers, data \in CallbackData : MarkCallback(u, data)
    \/ \E u \in MarkUsers : ShowStats(u)

SpecMark == MarkInit /\ [][MarkNext]_vars

\* C28: for every user and day the completed count of the chart is between
\* 0 and 5, so every chart line shows five bar cells and at most 5/5.
C28_ChartLineWithinFive ==
    reply.kind = "stats" =>
        \A i \in DOMAIN reply.chart :
            /\ reply.chart[i].completed_count \in 0..5
            /\ reply.chart[i].filled + reply.chart[i].empty = 5

\* C29: every stored completion record carries one of the five canonical
\* prayer names; /markprayer with another argument leaves the store as it
\* was, and no mark_prayer_ callback stores another name.
C29_OnlyCanonicalNamesStored ==
    /\ [](\A r \in DOMAIN prayer_stats : r.prayer_name \in Prayers)
    /\ [][reply'.kind = "keyboard" => prayer_stats' = prayer_stats]_vars

\* C30: no operation writes a completion record with completed = false:
\* in every reachable store all rows are completed, so whenever show_stats
\* finds a row in its window the completed count equals the total count
\* and the percentage is 100.
C30_EveryStoredRowCompleted ==
    /\ \A r \in DOMAIN prayer_stats : r.completed
    /\ reply.kind = "stats" =>
           /\ reply.total >= 1
           /\ reply.completed = reply.total
           /\ reply.percentage = 1000

C30_Witness ==
    /\ reply.kind = "stats"
    /\ reply.total >= 2
    /\ reply.completed = reply.total
    /\ reply.percentage = 1000
    /\ today > 1

====
